---- MODULE Spec2Model ----
(***************************************************************************)
(* TJ-II HIBP-1 geometry builder: define_geometry(config) of               *)
(* define_geometry.py, as a state machine that steps through the body of   *)
(* the function one statement group at a time.                             *)
(*                                                                         *)
(* Lengths are integers in units of 1e-5 m, angles in units of 0.01 deg.   *)
(* A numpy coordinate array is an object on a heap (r_dict holds           *)
(* references, so two names may share one array).  The value of an array   *)
(* is kept exactly as  xyz + SUM_a along[a] * u(a)  where u(a) is the unit *)
(* vector of the angle triple a: xyz is the Cartesian part, along[a] the   *)
(* signed length travelled in direction a.                                 *)
(***************************************************************************)
EXTENDS Integers, Sequences, FiniteSets, TLC

VARIABLES pc, config, geom, heap, it, fs, shift, outcome, nloads, ncalls,
          origin, pre, first

vars == <<pc, config, geom, heap, it, fs, shift, outcome, nloads, ncalls,
          origin, pre, first>>

\* ------------------------------------------------------------------ bounds
MaxCalls == 3

\* configuration labels the caller may pass
Labels == {"100_44_64", "100_40_63"}

\* states of a data file on disk
FileStates == {"ok", "missing", "malformed"}

\* ------------------------------------------------------- generic helpers
Abs(x) == IF x < 0 THEN -x ELSE x

EmptyMap == <<>>

\* the value None / "no object"
NoGeom == [none |-> TRUE]

\* Python dict: insertion-ordered keys plus the key -> value map
EmptyDict == [keys |-> <<>>, val |-> EmptyMap]

DictHas(d, k) == k \in DOMAIN d.val

DictSet(d, k, v) ==
    [keys |-> IF k \in DOMAIN d.val THEN d.keys ELSE Append(d.keys, k),
     val  |-> (k :> v) @@ d.val]

\* dict.update(other): insert the items of other in their own order
RECURSIVE DictUpdate(_, _)
DictUpdate(d, items) ==
    IF items = <<>> THEN d
    ELSE DictUpdate(DictSet(d, items[1][1], items[1][2]), Tail(items))

KeySet(d) == DOMAIN d.val

IsPrefix(s, t) == Len(s) <= Len(t) /\ \A i \in 1..Len(s) : s[i] = t[i]

\* ------------------------------------------------------- vector algebra
Vec3Add(a, b) == <<a[1] + b[1], a[2] + b[2], a[3] + b[3]>>

Zero3 == <<0, 0, 0>>

\* np.array([x, y, z])
np_array(x, y, z) == [xyz |-> <<x, y, z>>, along |-> EmptyMap]

AlongAt(f, a) == IF a \in DOMAIN f THEN f[a] ELSE 0

AlongSum(f, g) ==
    LET keys == {a \in (DOMAIN f) \cup (DOMAIN g) : AlongAt(f, a) + AlongAt(g, a) # 0}
    IN  [a \in keys |-> AlongAt(f, a) + AlongAt(g, a)]

AlongNeg(f) == [a \in DOMAIN f |-> -f[a]]

\* numpy  p + q  (a new array)
VecAdd(p, q) == [xyz |-> Vec3Add(p.xyz, q.xyz), along |-> AlongSum(p.along, q.along)]

VecSub(p, q) ==
    [xyz   |-> <<p.xyz[1] - q.xyz[1], p.xyz[2] - q.xyz[2], p.xyz[3] - q.xyz[3]>>,
     along |-> AlongSum(p.along, AlongNeg(q.along))]

\* hibplib: vector of length dist along the direction of the angle triple
calc_vector(dist, angles) ==
    [xyz |-> Zero3, along |-> IF dist = 0 THEN EmptyMap ELSE (angles :> dist)]

\* Euclidean distance |p - q| when p - q lies along one beamline direction
\* (|u(a)| = 1); Unknown when it is not expressible in that form
Unknown == -1

Dist(p, q) ==
    LET d == VecSub(p, q)
    IN  IF d.xyz # Zero3 THEN Unknown
        ELSE IF DOMAIN d.along = {} THEN 0
        ELSE IF Cardinality(DOMAIN d.along) = 1
             THEN Abs(d.along[CHOOSE a \in DOMAIN d.along : TRUE])
        ELSE Unknown

\* in-place  arr[0] += s[0]; arr[1] += s[1]; arr[2] += s[2]
iadd_xyz(v, s) == [v EXCEPT !.xyz = Vec3Add(@, s)]

\* ------------------------------------------------- constants of the file
R_major == 150000
r_plasma == 40000
elon == 100000

dalpha == -120
dbeta == 1100
alpha_prim == 7520 + dalpha
beta_prim == -2200 + dbeta
gamma_prim == 0

Mut_prim_angles ==
    << <<"r0", <<alpha_prim, beta_prim, gamma_prim>>>>,
       <<"A1", <<alpha_prim, beta_prim, gamma_prim>>>>,
       <<"B1", <<alpha_prim, -2200, gamma_prim>>>>,
       <<"B2", <<alpha_prim, beta_prim, gamma_prim>>>>,
       <<"A2", <<alpha_prim, beta_prim, gamma_prim>>>> >>

prim_angles ==
    << <<"r0", <<alpha_prim, beta_prim, gamma_prim>>>>,
       <<"A1", <<alpha_prim, beta_prim, gamma_prim>>>>,
       <<"B1", <<alpha_prim, beta_prim, gamma_prim>>>>,
       <<"B2", <<alpha_prim, beta_prim, gamma_prim>>>>,
       <<"A2", <<alpha_prim, beta_prim, gamma_prim>>>> >>

xport_in == 134817
yport_in == 86580
zport_in == 0

dist_A2 == 23050
dist_B2 == 19000
dist_B1 == 39000
dist_A1 == 18000
dist_r0 == 20000

xport_out == 237860
yport_out == -38000
zport_out == -3677 + 2000

alpha_sec == 0
beta_sec == 1315
gamma_sec == 0

Mut_sec_angles ==
    << <<"aim", <<alpha_sec, beta_sec, gamma_sec>>>>,
       <<"a3",  <<alpha_sec, beta_sec, gamma_sec>>>>,
       <<"B3",  <<alpha_sec, beta_sec, gamma_sec>>>>,
       <<"an",  <<alpha_sec, beta_sec, gamma_sec>>>> >>

sec_angles ==
    << <<"aim", <<alpha_sec, beta_sec, gamma_sec>>>>,
       <<"A3",  <<alpha_sec, beta_sec, gamma_sec>>>>,
       <<"B3",  <<alpha_sec, beta_sec, gamma_sec>>>>,
       <<"an",  <<alpha_sec, beta_sec, gamma_sec>>>> >>

dist_aim == 16600
dist_B3 == 22200
dist_A3 == 20000
dist_s == 63000

chamb_ent == << <<80000, 58050>>, <<110000, 58050>>,
                <<143000, 58050>>, <<180000, 58050>> >>
chamb_ext == << <<189000, -28000>>, <<189000, 0>>,
                <<189000, -66000>>, <<189000, -90000>>,
                <<158000, -52000>>, <<158000, -90000>> >>
chamb == << <<141500, -7136>>, <<140070, -4931>>,
            <<140070, -4931>>, <<139190, -2453>>,
            <<139190, -2453>>, <<138900, 162>>,
            <<138900, 162>>, <<139250, 2770>>,
            <<139250, 2770>>, <<140210, 5218>>,
            <<140210, 5218>>, <<141600, 7456>>,
            <<141600, 7456>>, <<143020, 9681>>,
            <<143020, 9681>>, <<144430, 11909>> >>

\* the add_coords statements: program position -> arguments and successor.
\* akey is the key of the geom.angles_dict[...] argument.
Mut_skip_add_coords_calls ==
    ("L63"  :> [name |-> "A2",   ref |-> "port_in",  dist |-> dist_A2, akey |-> "A2", next |-> "L65"]) @@
    ("L65"  :> [name |-> "B2",   ref |-> "A2",       dist |-> dist_B2, akey |-> "B2", next |-> "L67"]) @@
    ("L67"  :> [name |-> "B1",   ref |-> "A2",       dist |-> dist_B1, akey |-> "B1", next |-> "L69"]) @@
    ("L69"  :> [name |-> "A1",   ref |-> "B1",       dist |-> dist_A1, akey |-> "A1", next |-> "L71"]) @@
    ("L71"  :> [name |-> "r0",   ref |-> "A1",       dist |-> dist_r0, akey |-> "r0", next |-> "L78"]) @@
    ("L103" :> [name |-> "B3",   ref |-> "port_out", dist |-> dist_B3, akey |-> "A3", next |-> "L104"]) @@
    ("L104" :> [name |-> "aim",  ref |-> "B3",       dist |-> dist_A3 - 7500, akey |-> "A3", next |-> "L106"]) @@
    ("L106" :> [name |-> "A3",   ref |-> "B3",       dist |-> dist_A3, akey |-> "A3", next |-> "L108"]) @@
    ("L108" :> [name |-> "slit", ref |-> "B3",       dist |-> dist_s,  akey |-> "A3", next |-> "L109"])

Mut_early_add_coords_calls ==
    ("L63"  :> [name |-> "A2",   ref |-> "port_in",  dist |-> dist_A2, akey |-> "A2", next |-> "L65"]) @@
    ("L65"  :> [name |-> "B2",   ref |-> "A2",       dist |-> dist_B2, akey |-> "B2", next |-> "L67"]) @@
    ("L67"  :> [name |-> "B1",   ref |-> "B2",       dist |-> dist_B1, akey |-> "B1", next |-> "L69"]) @@
    ("L69"  :> [name |-> "A1",   ref |-> "B1",       dist |-> dist_A1, akey |-> "A1", next |-> "L71"]) @@
    ("L71"  :> [name |-> "r0",   ref |-> "A1",       dist |-> dist_r0, akey |-> "r0", next |-> "L78"]) @@
    ("L103" :> [name |-> "B3",   ref |-> "port_out", dist |-> dist_B3, akey |-> "A3", next |-> "L104"]) @@
    ("L104" :> [name |-> "aim",  ref |-> "A3",       dist |-> dist_A3 - 7500, akey |-> "A3", next |-> "L106"]) @@
    ("L106" :> [name |-> "A3",   ref |-> "B3",       dist |-> dist_A3, akey |-> "A3", next |-> "L108"]) @@
    ("L108" :> [name |-> "slit", ref |-> "B3",       dist |-> dist_s,  akey |-> "A3", next |-> "L109"])

add_coords_calls ==
    ("L63"  :> [name |-> "A2",   ref |-> "port_in",  dist |-> dist_A2, akey |-> "A2", next |-> "L65"]) @@
    ("L65"  :> [name |-> "B2",   ref |-> "A2",       dist |-> dist_B2, akey |-> "B2", next |-> "L67"]) @@
    ("L67"  :> [name |-> "B1",   ref |-> "B2",       dist |-> dist_B1, akey |-> "B1", next |-> "L69"]) @@
    ("L69"  :> [name |-> "A1",   ref |-> "B1",       dist |-> dist_A1, akey |-> "A1", next |-> "L71"]) @@
    ("L71"  :> [name |-> "r0",   ref |-> "A1",       dist |-> dist_r0, akey |-> "r0", next |-> "L78"]) @@
    ("L103" :> [name |-> "B3",   ref |-> "port_out", dist |-> dist_B3, akey |-> "A3", next |-> "L104"]) @@
    ("L104" :> [name |-> "aim",  ref |-> "B3",       dist |-> dist_A3 - 7500, akey |-> "A3", next |-> "L106"]) @@
    ("L106" :> [name |-> "A3",   ref |-> "B3",       dist |-> dist_A3, akey |-> "A3", next |-> "L108"]) @@
    ("L108" :> [name |-> "slit", ref |-> "B3",       dist |-> dist_s,  akey |-> "A3", next |-> "L109"])

\* the name read on the right-hand side of  geom.r_dict['an'] = ...
Mut_an_source == "A3"

an_source == "slit"

\* the offset added to every stored coordinate by the final pass
Mut_shift_vec == <<250, 5000, 0>>

shift_vec == <<0, 0, 0>>

\* offsets tried when the three literals of the final pass are varied
ShiftChoices == {<<0, 0, 0>>, <<250, 5000, 0>>}

\* file names
camera_path == <<"TJII_camera.dat">>

Mut_sep_path(cfg) == <<"configs//", "100_44_64", ".txt">>

sep_path(cfg) == <<"configs//", cfg, ".txt">>

\* the data files of the working directory: the camera contour and, for
\* each label, <label>.txt inside the configs directory
CameraFile == <<"TJII_camera.dat">>

ConfigFile(l) == <<"configs//", l, ".txt">>

Paths == {CameraFile} \cup {ConfigFile(l) : l \in Labels}

\* np.loadtxt(path) against the file system f
loadtxt(f, path) ==
    IF path \notin DOMAIN f \/ f[path] = "missing"
        THEN [err |-> "FileNotFoundError", data |-> <<>>]
    ELSE IF f[path] = "malformed"
        THEN [err |-> "ValueError", data |-> <<>>]
    ELSE [err |-> "", data |-> path]

\* hb.Geometry(): a new object with empty containers
HbGeometry ==
    [R |-> 0, r_plasma |-> 0, elon |-> 0,
     r_dict |-> EmptyDict, angles_dict |-> EmptyDict,
     chamb_ent |-> <<>>, chamb_ext |-> <<>>, chamb |-> <<>>,
     camera |-> <<>>, sep |-> <<>>]

\* line 24: the object the local name geom is bound to, given the object
\* left by the previous call
Mut_geom_line24(prev) == IF prev = NoGeom THEN HbGeometry ELSE prev

geom_line24(prev) == HbGeometry

\* a reference not in use on the heap
NewRef(h) == CHOOSE r \in 0..Cardinality(DOMAIN h) : r \notin DOMAIN h

\* the arrays reachable from a geometry
LiveRefs(g) == IF g = NoGeom THEN {} ELSE {g.r_dict.val[k] : k \in KeySet(g.r_dict)}

Restrict(h, S) == [r \in (DOMAIN h) \cap S |-> h[r]]

\* the value stored under a name
Coord(g, h, name) == h[g.r_dict.val[name]]

\* a geometry by value
Snapshot(g, h) ==
    [names  |-> g.r_dict.keys,
     r      |-> [k \in KeySet(g.r_dict) |-> Coord(g, h, k)],
     angles |-> g.angles_dict,
     rest   |-> [R |-> g.R, r_plasma |-> g.r_plasma, elon |-> g.elon,
                 chamb_ent |-> g.chamb_ent, chamb_ext |-> g.chamb_ext,
                 chamb |-> g.chamb, camera |-> g.camera, sep |-> g.sep]]


\* hibplib Geometry.add_coords(name, ref_point, dist, angles):
\* r_dict[name] = r_dict[ref_point] + calc_vector(dist, angles), a new array
add_coords(g, h, name, ref_point, dist, angles) ==
    LET r   == VecAdd(Coord(g, h, ref_point), calc_vector(dist, angles))
        ref == NewRef(h)
        g2  == [g EXCEPT !.r_dict = DictSet(@, name, ref)]
    IN  [g |-> g2, h |-> Restrict((ref :> r) @@ h, LiveRefs(g2))]

\* geom.r_dict[name] = np.array([x, y, z])
store_array(g, h, name, x, y, z) ==
    LET ref == NewRef(h)
        g2  == [g EXCEPT !.r_dict = DictSet(@, name, ref)]
    IN  [g |-> g2, h |-> Restrict((ref :> np_array(x, y, z)) @@ h, LiveRefs(g2))]

\* how a name of r_dict was produced (history of the current call)
Origin(kind, ref_point, dist, akey) ==
    [kind |-> kind, ref |-> ref_point, dist |-> dist, akey |-> akey]

\* ----------------------------------------------------------------- Init
InitCommon ==
    /\ pc = "idle"
    /\ config = CHOOSE l \in Labels : TRUE
    /\ geom = NoGeom
    /\ heap = EmptyMap
    /\ it = 0
    /\ fs \in [Paths -> FileStates]
    /\ outcome = "none"
    /\ nloads = 0
    /\ ncalls = 0
    /\ origin = EmptyMap
    /\ pre = NoGeom
    /\ first = [l \in Labels |-> NoGeom]

Init == InitCommon /\ shift = shift_vec

InitShift == InitCommon /\ shift \in ShiftChoices

\* -------------------------------------------------------------- actions
\* an exception leaves define_geometry: nothing is returned
Raise(err) ==
    /\ pc' = "idle"
    /\ outcome' = err
    /\ geom' = NoGeom
    /\ heap' = EmptyMap
    /\ it' = 0
    /\ origin' = EmptyMap
    /\ pre' = NoGeom
    /\ UNCHANGED <<config, fs, shift, ncalls, first>>

\* the caller invokes define_geometry(c)
Call ==
    /\ pc = "idle"
    /\ ncalls < MaxCalls
    /\ \E c \in Labels : config' = c
    /\ pc' = "L24"
    /\ outcome' = "running"
    /\ ncalls' = ncalls + 1
    /\ nloads' = 0
    /\ UNCHANGED <<geom, heap, it, fs, shift, origin, pre, first>>

\* line 24: geom = hb.Geometry()
Construct ==
    /\ pc = "L24"
    /\ geom' = geom_line24(geom)
    /\ heap' = Restrict(heap, LiveRefs(geom'))
    /\ origin' = [k \in (DOMAIN origin) \cap KeySet(geom'.r_dict) |-> origin[k]]
    /\ pre' = NoGeom
    /\ pc' = "L27"
    /\ UNCHANGED <<config, it, fs, shift, outcome, nloads, ncalls, first>>

\* lines 27-29
SetPlasma ==
    /\ pc = "L27"
    /\ geom' = [geom EXCEPT !.R = R_major, !.r_plasma = r_plasma, !.elon = elon]
    /\ pc' = "L38"
    /\ UNCHANGED <<config, heap, it, fs, shift, outcome, nloads, ncalls, origin, pre, first>>

\* lines 33-43
SetPrimAngles ==
    /\ pc = "L38"
    /\ geom' = [geom EXCEPT !.angles_dict = DictUpdate(@, prim_angles)]
    /\ pc' = "L49"
    /\ UNCHANGED <<config, heap, it, fs, shift, outcome, nloads, ncalls, origin, pre, first>>

\* lines 46-49
StorePortIn ==
    /\ pc = "L49"
    /\ LET s == store_array(geom, heap, "port_in", xport_in, yport_in, zport_in)
       IN  geom' = s.g /\ heap' = s.h
    /\ origin' = ("port_in" :> Origin("port", "", 0, "")) @@ origin
    /\ pc' = "L63"
    /\ UNCHANGED <<config, it, fs, shift, outcome, nloads, ncalls, pre, first>>

\* lines 63-71 and 103-108: geom.add_coords(name, ref, dist, geom.angles_dict[akey])
AddCoords ==
    /\ pc \in DOMAIN add_coords_calls
    /\ LET s == add_coords_calls[pc]
       IN  IF ~DictHas(geom.angles_dict, s.akey)
               THEN Raise("KeyError_angles_dict") /\ UNCHANGED nloads
           ELSE IF ~DictHas(geom.r_dict, s.ref)
               THEN Raise("KeyError_r_dict") /\ UNCHANGED nloads
           ELSE LET n == add_coords(geom, heap, s.name, s.ref, s.dist,
                                    geom.angles_dict.val[s.akey])
                IN  /\ geom' = n.g
                    /\ heap' = n.h
                    /\ origin' = (s.name :> Origin("add_coords", s.ref, s.dist, s.akey)) @@ origin
                    /\ pc' = s.next
                    /\ UNCHANGED <<config, it, fs, shift, outcome, nloads, ncalls, pre, first>>

\* lines 75-78
StorePortOut ==
    /\ pc = "L78"
    /\ LET s == store_array(geom, heap, "port_out", xport_out, yport_out, zport_out)
       IN  geom' = s.g /\ heap' = s.h
    /\ origin' = ("port_out" :> Origin("port", "", 0, "")) @@ origin
    /\ pc' = "L85"
    /\ UNCHANGED <<config, it, fs, shift, outcome, nloads, ncalls, pre, first>>

\* lines 82-89
SetSecAngles ==
    /\ pc = "L85"
    /\ geom' = [geom EXCEPT !.angles_dict = DictUpdate(@, sec_angles)]
    /\ pc' = "L103"
    /\ UNCHANGED <<config, heap, it, fs, shift, outcome, nloads, ncalls, origin, pre, first>>

\* line 109: geom.r_dict['an'] = geom.r_dict['slit'] binds a second name to
\* the same array object
AliasAn ==
    /\ pc = "L109"
    /\ IF ~DictHas(geom.r_dict, an_source)
           THEN Raise("KeyError_r_dict") /\ UNCHANGED nloads
       ELSE LET g2 == [geom EXCEPT !.r_dict = DictSet(@, "an", geom.r_dict.val[an_source])]
            IN  /\ geom' = g2
                /\ heap' = Restrict(heap, LiveRefs(g2))
                /\ origin' = ("an" :> Origin("alias", an_source, 0, "")) @@ origin
                /\ pc' = "L112"
                /\ UNCHANGED <<config, it, fs, shift, outcome, nloads, ncalls, pre, first>>

\* lines 112-116: the prints read angles_dict['r0'], angles_dict['A3'],
\* r_dict['r0'], r_dict['aim'], r_dict['slit']
PrintInfo ==
    /\ pc = "L112"
    /\ IF ~({"r0", "A3"} \subseteq KeySet(geom.angles_dict))
           THEN Raise("KeyError_angles_dict") /\ UNCHANGED nloads
       ELSE IF ~({"r0", "aim", "slit"} \subseteq KeySet(geom.r_dict))
           THEN Raise("KeyError_r_dict") /\ UNCHANGED nloads
       ELSE /\ pc' = "L120"
            /\ UNCHANGED <<config, geom, heap, it, fs, shift, outcome, nloads, ncalls,
                           origin, pre, first>>

\* lines 120-132
SetChamber ==
    /\ pc = "L120"
    /\ geom' = [geom EXCEPT !.chamb_ent = chamb_ent, !.chamb_ext = chamb_ext,
                            !.chamb = chamb]
    /\ pc' = "L135"
    /\ UNCHANGED <<config, heap, it, fs, shift, outcome, nloads, ncalls, origin, pre, first>>

\* line 135: geom.camera = np.loadtxt('TJII_camera.dat')
LoadCamera ==
    /\ pc = "L135"
    /\ nloads' = nloads + 1
    /\ LET res == loadtxt(fs, camera_path)
       IN  IF res.err # "" THEN Raise(res.err)
           ELSE /\ geom' = [geom EXCEPT !.camera = res.data]
                /\ pc' = "L137"
                /\ UNCHANGED <<config, heap, it, fs, shift, outcome, ncalls, origin, pre, first>>

\* line 137: geom.sep = np.loadtxt('configs//' + config + '.txt')
LoadSep ==
    /\ pc = "L137"
    /\ nloads' = nloads + 1
    /\ LET res == loadtxt(fs, sep_path(config))
       IN  IF res.err # "" THEN Raise(res.err)
           ELSE /\ geom' = [geom EXCEPT !.sep = res.data]
                /\ pc' = "L139"
                /\ it' = 1
                /\ pre' = Snapshot(geom', heap)
                /\ UNCHANGED <<config, heap, fs, shift, outcome, ncalls, origin, first>>

\* lines 139-143: one iteration of  for key in geom.r_dict.keys()  (the
\* three += act on the array object the key refers to), or the loop exit
ForKey ==
    /\ pc = "L139"
    /\ IF it <= Len(geom.r_dict.keys)
           THEN /\ heap' = [heap EXCEPT ![geom.r_dict.val[geom.r_dict.keys[it]]] =
                                            iadd_xyz(@, shift)]
                /\ it' = it + 1
                /\ pc' = pc
           ELSE /\ pc' = "L145"
                /\ it' = 0
                /\ heap' = heap
    /\ UNCHANGED <<config, geom, fs, shift, outcome, nloads, ncalls, origin, pre, first>>

\* line 145: return geom
Return ==
    /\ pc = "L145"
    /\ pc' = "idle"
    /\ outcome' = "returned"
    /\ first' = IF first[config] = NoGeom
                    THEN [first EXCEPT ![config] = Snapshot(geom, heap)]
                    ELSE first
    /\ UNCHANGED <<config, geom, heap, it, fs, shift, nloads, ncalls, origin, pre>>

Next ==
    \/ Call
    \/ Construct
    \/ SetPlasma
    \/ SetPrimAngles
    \/ StorePortIn
    \/ AddCoords
    \/ StorePortOut
    \/ SetSecAngles
    \/ AliasAn
    \/ PrintInfo
    \/ SetChamber
    \/ LoadCamera
    \/ LoadSep
    \/ ForKey
    \/ Return

Spec == Init /\ [][Next]_vars

SpecShift == InitShift /\ [][Next]_vars


\* ----------------------------------------------------------- properties
\* the chain as the claims state it
ClaimOrder ==
    <<"port_in", "A2", "B2", "B1", "A1", "r0",
      "port_out", "B3", "aim", "A3", "slit", "an">>

ClaimParent ==
    ("A2" :> "port_in") @@ ("B2" :> "A2") @@ ("B1" :> "B2") @@ ("A1" :> "B1") @@
    ("r0" :> "A1") @@ ("B3" :> "port_out") @@ ("aim" :> "B3") @@ ("A3" :> "B3") @@
    ("slit" :> "B3")

ClaimDist ==
    ("A2" :> dist_A2) @@ ("B2" :> dist_B2) @@ ("B1" :> dist_B1) @@ ("A1" :> dist_A1) @@
    ("r0" :> dist_r0) @@ ("B3" :> dist_B3) @@ ("aim" :> dist_aim) @@ ("A3" :> dist_A3) @@
    ("slit" :> dist_s)

Derived == DOMAIN ClaimParent

PrimGroup == {"r0", "A1", "B1", "B2", "A2"}

SecGroup == {"aim", "A3", "B3", "an"}

Returned == pc = "idle" /\ outcome = "returned"

Failed == pc = "idle" /\ outcome \notin {"none", "returned"}

\* C1: every read of a named coordinate (the parent passed to add_coords,
\* the read of 'slit' for 'an') finds the name already in r_dict; names are
\* stored in the order port_in, A2, B2, B1, A1, r0, port_out, B3, aim, A3,
\* slit (then an); each derived element was computed from its predecessor
\* in the chain (B3 for aim, A3 and slit).
C1_NamedReadsResolve ==
    /\ outcome # "KeyError_r_dict"
    /\ pc \in DOMAIN add_coords_calls => add_coords_calls[pc].ref \in KeySet(geom.r_dict)
    /\ pc = "L109" => "slit" \in KeySet(geom.r_dict)
    /\ geom # NoGeom => IsPrefix(geom.r_dict.keys, ClaimOrder)
    /\ \A n \in DOMAIN origin :
          origin[n].kind = "add_coords" => n \in Derived /\ origin[n].ref = ClaimParent[n]

C1_Witness ==
    /\ pc = "L112"
    /\ geom.r_dict.keys = ClaimOrder
    /\ \A n \in Derived : n \in DOMAIN origin /\ origin[n].kind = "add_coords"

\* C2: every angles_dict lookup made for an add_coords call reads a key
\* that is already in angles_dict: the primary triples are stored before
\* A2..r0 are computed, the secondary triples before B3, aim, A3, slit.
C2_AnglesBeforeCoords ==
    /\ outcome # "KeyError_angles_dict"
    /\ pc \in DOMAIN add_coords_calls => add_coords_calls[pc].akey \in KeySet(geom.angles_dict)
    /\ \A n \in DOMAIN origin :
          origin[n].kind = "add_coords" =>
              /\ origin[n].akey \in KeySet(geom.angles_dict)
              /\ n \in PrimGroup => PrimGroup \subseteq KeySet(geom.angles_dict)
              /\ n \in {"B3", "aim", "A3", "slit"} => SecGroup \subseteq KeySet(geom.angles_dict)

C2_Witness ==
    /\ pc = "L109"
    /\ {"A2", "B2", "B1", "A1", "r0", "B3", "aim", "A3", "slit"} \subseteq DOMAIN origin

\* C3 (as claimed): in the returned geometry each derived element lies at
\* its configured distance (dist_A2, dist_B2, dist_B1, dist_A1, dist_r0,
\* dist_B3, dist_aim, dist_A3, dist_s) from its declared parent.
C3_ParentDistance ==
    Returned =>
        \A e \in Derived :
            Dist(Coord(geom, heap, e), Coord(geom, heap, ClaimParent[e])) = ClaimDist[e]

\* C4 (as claimed): a Geometry is returned only when both files are
\* readable; when the camera file or the label's file is missing the call
\* ends in a file-not-found failure and returns nothing.
C4_MissingGivesFileNotFound ==
    /\ Returned => fs[CameraFile] = "ok" /\ fs[ConfigFile(config)] = "ok"
    /\ (pc = "idle" /\ outcome # "none"
          /\ (fs[CameraFile] = "missing" \/ fs[ConfigFile(config)] = "missing"))
       => outcome = "FileNotFoundError" /\ geom = NoGeom

\* C4 (amended): a Geometry is returned only when both files are readable.
\* The camera file is loaded first: a missing camera file ends the call in
\* a file-not-found failure; a missing label file ends it in a
\* file-not-found failure when the camera file loaded; a malformed camera
\* file ends it in a parse failure whatever the state of the label file.
\* A failed call returns nothing and loads no file twice.
C4_LoadOrder ==
    /\ Returned => fs[CameraFile] = "ok" /\ fs[ConfigFile(config)] = "ok" /\ nloads = 2
    /\ (pc = "idle" /\ outcome # "none" /\ fs[CameraFile] = "missing")
       => outcome = "FileNotFoundError" /\ geom = NoGeom /\ nloads = 1
    /\ (pc = "idle" /\ outcome # "none" /\ fs[CameraFile] = "ok"
          /\ fs[ConfigFile(config)] = "missing")
       => outcome = "FileNotFoundError" /\ geom = NoGeom /\ nloads = 2
    /\ (pc = "idle" /\ outcome # "none" /\ fs[CameraFile] = "malformed")
       => outcome = "ValueError" /\ geom = NoGeom /\ nloads = 1
    /\ Failed => geom = NoGeom

C4_Witness ==
    /\ pc = "idle"
    /\ outcome = "ValueError"
    /\ fs[CameraFile] = "malformed"
    /\ fs[ConfigFile(config)] = "missing"
    /\ nloads = 1

\* C5: every geometry returned for a label has the same named coordinates
\* and angle triples as the first geometry returned for that label, whatever
\* calls came in between, and the body starts from a Geometry with empty
\* r_dict and angles_dict.
C5_Deterministic ==
    /\ Returned =>
          /\ first[config] # NoGeom
          /\ Snapshot(geom, heap).names = first[config].names
          /\ Snapshot(geom, heap).r = first[config].r
          /\ geom.angles_dict = first[config].angles
    /\ pc = "L27" =>
          /\ KeySet(geom.r_dict) = {}
          /\ KeySet(geom.angles_dict) = {}
          /\ DOMAIN heap = {}

C5_Witness ==
    /\ Returned
    /\ ncalls >= 3
    /\ \A p \in Paths : fs[p] = "ok"
    /\ \A l \in Labels : first[l] # NoGeom

\* C6: in the returned geometry the triples of r0, A1, B1, B2, A2 are equal
\* to each other and the triples of aim, A3, B3, an are equal to each other.
C6_GroupedAnglesEqual ==
    Returned =>
        /\ PrimGroup \cup SecGroup \subseteq KeySet(geom.angles_dict)
        /\ \A a, b \in PrimGroup : geom.angles_dict.val[a] = geom.angles_dict.val[b]
        /\ \A a, b \in SecGroup : geom.angles_dict.val[a] = geom.angles_dict.val[b]

C6_Witness ==
    /\ Returned
    /\ geom.angles_dict.keys = <<"r0", "A1", "B1", "B2", "A2", "aim", "A3", "B3", "an">>

\* C7: the returned r0 is port_in moved by dist_A2 + dist_B2 + dist_B1 +
\* dist_A1 + dist_r0 along the one primary direction.
C7_R0Chained ==
    Returned =>
        LET total == dist_A2 + dist_B2 + dist_B1 + dist_A1 + dist_r0
            r0    == Coord(geom, heap, "r0")
            port  == Coord(geom, heap, "port_in")
        IN  /\ port = np_array(xport_in, yport_in, zport_in)
            /\ r0 = VecAdd(port, calc_vector(total, <<alpha_prim, beta_prim, gamma_prim>>))
            /\ Dist(r0, port) = total

C7_Witness ==
    /\ Returned
    /\ {"port_in", "r0"} \subseteq KeySet(geom.r_dict)
    /\ origin["r0"].ref = "A1"

\* C8: the final pass leaves every named coordinate at the value it had
\* before the pass, keeps the set of names, and leaves angles_dict, the
\* chamber lists, camera and sep untouched.
C8_ZeroPassIsNoOp ==
    (pc \in {"L139", "L145"} \/ Returned) =>
        /\ pre # NoGeom
        /\ Snapshot(geom, heap).names = pre.names
        /\ Snapshot(geom, heap).r = pre.r
        /\ Snapshot(geom, heap).angles = pre.angles
        /\ Snapshot(geom, heap).rest = pre.rest

C8_Witness ==
    /\ pc = "L145"
    /\ Len(pre.names) = 12

\* C9 (as claimed): whatever the offset, after the final pass every name of
\* r_dict, 'slit' and 'an' included, is shifted by the offset exactly once.
C9_ShiftedOnce ==
    pc = "L145" =>
        \A n \in KeySet(geom.r_dict) : Coord(geom, heap, n) = iadd_xyz(pre.r[n], shift)

\* C10: 'an' holds the same coordinate as 'slit', before, during and after
\* the final pass, and 'an' is the only name that is neither a port
\* coordinate nor produced by add_coords.
C10_AnEqualsSlit ==
    /\ (geom # NoGeom /\ "an" \in KeySet(geom.r_dict)) =>
          /\ "slit" \in KeySet(geom.r_dict)
          /\ Coord(geom, heap, "an") = Coord(geom, heap, "slit")
    /\ Returned =>
          /\ "an" \in KeySet(geom.r_dict)
          /\ {n \in KeySet(geom.r_dict) : origin[n].kind \notin {"port", "add_coords"}} = {"an"}
          /\ {n \in KeySet(geom.r_dict) : origin[n].kind = "port"} = {"port_in", "port_out"}

C10_Witness ==
    /\ Returned
    /\ shift # Zero3
    /\ origin["an"].kind = "alias"

====
